---- MODULE Spec2Model ----
(***************************************************************************)
(* Model of the UART command console of FreeRTOS-CLI (src/cli.c, cli.h).   *)
(*                                                                         *)
(* State: the fields of cliInstance (Cli_s), the two FreeRTOS queues, the  *)
(* direction pins, the transport's transmitter, and the position of the    *)
(* one task (cliTask).  Interrupt handlers are atomic actions that may     *)
(* fire between any two steps of the task.                                 *)
(*                                                                         *)
(* Four next-state relations are built from the same actions:              *)
(*   StartupSpec  CliStartup from its entry to its return, for every       *)
(*             outcome of the calls it makes, the interrupts the transport *)
(*             delivers meanwhile, and the start of cliTask up to the end  *)
(*             of its first pass of cliAuthenticate;                       *)
(*   Spec      the program after a successful CliStartup: cliTask calls    *)
(*             cliAuthenticate, whose do/while(1) repeats the switch and   *)
(*             never returns, so the rest of cliTask's loop is never       *)
(*             reached;                                                    *)
(*   ScriptSpec  Spec with the sender typing one of a few fixed lines;     *)
(*   AuthStepSpec  cliAuthenticate from every auth state, cursor and line  *)
(*             buffer of a small alphabet.                                 *)
(*                                                                         *)
(* The rest of cliTask's loop (the line assembler and the dispatch loop,   *)
(* cli.c:223-277) is written out as actions as well; they are part of no   *)
(* next-state relation, since no run of the program gets to them.          *)
(*                                                                         *)
(* The label of the third case of cliAuthenticate's switch is missing in   *)
(* the source (cli.c:497); it is read as FSM_PROCESS, the only state the   *)
(* FSM_INPUT case moves to.                                                *)
(*                                                                         *)
(* cliInstance.txChar is not modelled: cliSendMessage receives the status  *)
(* tag into it and nothing reads it.  The line buffer is scaled from 256   *)
(* bytes to CLI_RX_BUFFER_SIZE bytes.                                      *)
(***************************************************************************)
EXTENDS Integers, Sequences, FiniteSets, TLC

\* ------------------------------------------------------------- constants

CLI_RX_BUFFER_SIZE == 7

CLI_QUEUE_LENGTH == 10

CLI_END_CHAR == 13

CLI_BS_CHAR == 127

CLI_NULL_CHAR == 0

LF_CHAR == 10

PASSWORD == <<49, 50, 51, 52>>

UART_RX_MODE == 0

UART_TX_MODE == 1

CLI_TX_COMPLETE == 1

CLI_MSG_ERR == 2

FSM_LOG_IN == 0

FSM_LOG_OUT == 1

FSM_INPUT == 2

FSM_PROCESS == 3

FSM_ERR == 4

pdFALSE == FALSE

pdTRUE == TRUE

\* ---------------------------------------------------------------- bounds

\* Bytes the transport delivers during and after CliStartup in StartupSpec.
MaxInput == 2

\* Error interrupts in a behaviour.
MaxErr == 1

\* Bytes delivered by the transport in Spec (more than the queue holds).
MaxFlood == 11

\* Calls of the interpreter one command line may need.
MaxChunks == 2

\* The bytes the transport delivers in Spec and in StartupSpec.
FloodBytes == {49, CLI_END_CHAR}

VARIABLES
    pc,            \* position of cliTask
    authState,     \* cliInstance.authState
    rxBuffer,      \* cliInstance.rxBuffer, indexed from 0
    rxIndex,       \* cliInstance.rxIndex
    rxChar,        \* cliInstance.rxChar (written by the task and by the RX interrupt)
    rxQueue,       \* cliInstance.rxQueue
    txQueue,       \* cliInstance.txQueue
    uartMode,      \* level of the direction pins
    txBusy,        \* the transport has a write it has not settled
    halted,        \* the program has stopped: ASSERT(0) was hit, or a call
                   \* on a NULL queue handle did not return
    sw,            \* the value of rxChar the switch of cliTask branched on
    returnStatus,  \* cliTask's returnStatus
    queueBuff,     \* cliTask's queueBuff
    msg,           \* cliSendMessage's argument
    chunk,         \* interpreter calls made for the current line
    nwrites,       \* io_write calls made for the current line
    nrx,           \* history: number of bytes the transport delivered
    nenq,          \* history: number of bytes the RX interrupt enqueued
    nerr,          \* history: number of error interrupts
    taken,         \* history: the byte xQueueReceive handed to the task last
    actedOn,       \* history: the byte the line assembler acted on last
    supc,          \* position of CliStartup
    status,        \* CliStartup's status
    outcome,       \* what each call CliStartup makes returns
    taskCalled,    \* history: xTaskCreate was called
    script,        \* the bytes the sender types in ScriptSpec
    transport,     \* what CliStartup has set up: cliInstance.io non-NULL,
                   \* the two queues created, the callbacks registered,
                   \* the USART enabled
    entered        \* history: authState when the pass of the switch of
                   \* cliAuthenticate that is under way began, in a set

vars == <<pc, authState, rxBuffer, rxIndex, rxChar, rxQueue, txQueue, uartMode,
          txBusy, halted, sw, returnStatus, queueBuff, msg, chunk, nwrites,
          nrx, nenq, nerr, taken, actedOn, supc, status, outcome,
          taskCalled, script, entered, transport>>

\* --------------------------------------------------------- C strings

BufIndex == 0 .. (CLI_RX_BUFFER_SIZE - 1)

ZeroBuf == [i \in BufIndex |-> CLI_NULL_CHAR]

\* The buffer that holds the bytes of s from position 0 on, zero behind them.
BufferOf(s) ==
    [i \in BufIndex |-> IF i < Len(s) THEN s[i + 1] ELSE CLI_NULL_CHAR]

MinOf(S) == CHOOSE i \in S : \A j \in S : i <= j

\* strlen: the index of the first NUL.
strlen(buf) ==
    IF \E i \in BufIndex : buf[i] = CLI_NULL_CHAR
    THEN MinOf({i \in BufIndex : buf[i] = CLI_NULL_CHAR})
    ELSE CLI_RX_BUFFER_SIZE

\* The bytes before the first NUL.
CString(buf) == [i \in 1 .. strlen(buf) |-> buf[i - 1]]

\* strchr(buf, c) != NULL
strchr(buf, c) == \E i \in 0 .. (strlen(buf) - 1) : buf[i] = c

\* strcspn: the length of the prefix holding no byte of reject.
strcspn(buf, reject) ==
    MinOf({i \in 0 .. strlen(buf) : i = strlen(buf) \/ buf[i] \in reject})

\* strcmp(buf, s) == 0
strcmpEq(buf, s) == CString(buf) = s

\* ------------------------------------------------------- initial state

\* What the calls of CliStartup return: the descriptor lookup (its result
\* code and the descriptor it stores), the two xQueueCreate, the three
\* usart_async_register_callback, usart_async_enable and xTaskCreate.
\* TRUE is success (ERR_NONE, a handle, pdPASS).
Outcomes ==
    [ioResult : BOOLEAN, io : BOOLEAN, rxQueue : BOOLEAN, txQueue : BOOLEAN,
     rxCb : BOOLEAN, txCb : BOOLEAN, errCb : BOOLEAN, enable : BOOLEAN,
     task : BOOLEAN]

\* cliInstance before CliStartup (static storage: io and the queue handles
\* are NULL, nothing is registered, the USART is not enabled) and after a
\* CliStartup in which every step succeeded.
Callbacks == {"USART_ASYNC_RXC_CB", "USART_ASYNC_TXC_CB", "USART_ASYNC_ERROR_CB"}

TransportDown ==
    [io |-> FALSE, rxQueue |-> FALSE, txQueue |-> FALSE, callbacks |-> {},
     enabled |-> FALSE]

TransportUp ==
    [io |-> TRUE, rxQueue |-> TRUE, txQueue |-> TRUE, callbacks |-> Callbacks,
     enabled |-> TRUE]

AllSucceed ==
    [ioResult |-> TRUE, io |-> TRUE, rxQueue |-> TRUE, txQueue |-> TRUE,
     rxCb |-> TRUE, txCb |-> TRUE, errCb |-> TRUE, enable |-> TRUE,
     task |-> TRUE]

\* The state when cliTask, created by a CliStartup in which every step
\* succeeded, has set authState and is at its call of cliAuthenticate
\* (cli.c:214-220): buffers zeroed by CliStartup, cursor 0, queues empty, no
\* write in flight, receive mode.  s is what the sender is going to type.
InitScript(s) ==
    /\ pc = "auth"
    /\ script = s
    /\ entered = {}
    /\ transport = TransportUp
    /\ authState = FSM_LOG_IN
    /\ rxBuffer = ZeroBuf
    /\ rxIndex = 0
    /\ rxChar = CLI_NULL_CHAR
    /\ rxQueue = <<>>
    /\ txQueue = <<>>
    /\ uartMode = UART_RX_MODE
    /\ txBusy = FALSE
    /\ halted = FALSE
    /\ sw = CLI_NULL_CHAR
    /\ returnStatus = pdFALSE
    /\ queueBuff = 0
    /\ msg = "none"
    /\ chunk = 0
    /\ nwrites = 0
    /\ nrx = 0
    /\ nenq = 0
    /\ nerr = 0
    /\ taken = CLI_NULL_CHAR
    /\ actedOn = CLI_NULL_CHAR
    /\ supc = "returned"
    /\ status = 0
    /\ outcome = AllSucceed
    /\ taskCalled = TRUE

Init == InitScript(<<>>)

\* ------------------------------------------------------------- CliStartup

\* ioResult != ERR_NONE || cliInstance.io == NULL
DescriptorFailed(o) == ~o.ioResult \/ ~o.io

QueuesFailedRxOnly(o) == ~o.rxQueue

\* !cliInstance.rxQueue || !cliInstance.txQueue
QueuesFailed(o) == ~o.rxQueue \/ ~o.txQueue

\* rxCbStatus != ERR_NONE || txCbStatus != ERR_NONE || errCbStatus != ERR_NONE
CallbacksFailedRxOnly(o) == ~o.rxCb

CallbacksFailed(o) == ~o.rxCb \/ ~o.txCb \/ ~o.errCb

\* uartEnableStatus != ERR_NONE
EnableFailed(o) == ~o.enable

\* taskStatus != pdPASS
TaskFailed(o) == ~o.task

\* The state when CliStartup is entered: cliInstance is a zero-initialised
\* static, no task exists, the direction pins are at either level, and the
\* calls CliStartup makes may each succeed or fail.
InitStartup ==
    /\ pc = "none"
    /\ authState = 0
    /\ rxBuffer = ZeroBuf
    /\ rxIndex = 0
    /\ rxChar = CLI_NULL_CHAR
    /\ rxQueue = <<>>
    /\ txQueue = <<>>
    /\ uartMode \in {UART_RX_MODE, UART_TX_MODE}
    /\ txBusy = FALSE
    /\ halted = FALSE
    /\ sw = CLI_NULL_CHAR
    /\ returnStatus = pdFALSE
    /\ queueBuff = 0
    /\ msg = "none"
    /\ chunk = 0
    /\ nwrites = 0
    /\ nrx = 0
    /\ nenq = 0
    /\ nerr = 0
    /\ taken = CLI_NULL_CHAR
    /\ actedOn = CLI_NULL_CHAR
    /\ supc = "descriptor"
    /\ status = 0
    /\ outcome \in Outcomes
    /\ taskCalled = FALSE
    /\ script = <<>>
    /\ entered = {}
    /\ transport = TransportDown

\* The callbacks whose usart_async_register_callback returned ERR_NONE.
Registered(o) ==
    {cb \in Callbacks : \/ cb = "USART_ASYNC_RXC_CB" /\ o.rxCb
                        \/ cb = "USART_ASYNC_TXC_CB" /\ o.txCb
                        \/ cb = "USART_ASYNC_ERROR_CB" /\ o.errCb}

\* Receive mode, then the descriptor lookup; on success the cursor and the
\* buffers are cleared.  A failure leaves the do/while(0) before that, with
\* status, the cursor and the buffers as they are.
CliStartupDescriptor ==
    /\ supc = "descriptor"
    /\ uartMode' = UART_RX_MODE
    /\ rxIndex' = IF DescriptorFailed(outcome) THEN rxIndex ELSE 0
    /\ rxBuffer' = IF DescriptorFailed(outcome) THEN rxBuffer ELSE ZeroBuf
    /\ supc' = IF DescriptorFailed(outcome) THEN "return" ELSE "queues"
    /\ transport' = [transport EXCEPT !.io = outcome.io]
    /\ UNCHANGED <<pc, authState, rxChar, rxQueue, txQueue, txBusy, halted,
                   sw, returnStatus, queueBuff, msg, chunk, nwrites, nrx,
                   nenq, nerr, taken, actedOn, status, outcome, taskCalled,
                   script, entered>>

\* The two xQueueCreate and their check: each handle is that of a new, empty
\* queue, or NULL.
CliStartupQueues ==
    /\ supc = "queues"
    /\ rxQueue' = <<>>
    /\ txQueue' = <<>>
    /\ status' = IF QueuesFailed(outcome) THEN -1 ELSE status
    /\ supc' = IF QueuesFailed(outcome) THEN "return" ELSE "callbacks"
    /\ transport' = [transport EXCEPT !.rxQueue = outcome.rxQueue,
                                      !.txQueue = outcome.txQueue]
    /\ UNCHANGED <<pc, authState, rxBuffer, rxIndex, rxChar, uartMode,
                   txBusy, halted, sw, returnStatus, queueBuff, msg, chunk,
                   nwrites, nrx, nenq, nerr, taken, actedOn, outcome,
                   taskCalled, script, entered>>

\* CliCmdInit, the three usart_async_register_callback and their check.
CliStartupCallbacks ==
    /\ supc = "callbacks"
    /\ status' = IF CallbacksFailed(outcome) THEN -2 ELSE status
    /\ supc' = IF CallbacksFailed(outcome) THEN "return" ELSE "enable"
    /\ transport' = [transport EXCEPT !.callbacks = Registered(outcome)]
    /\ UNCHANGED <<pc, authState, rxBuffer, rxIndex, rxChar, rxQueue,
                   txQueue, uartMode, txBusy, halted, sw, returnStatus,
                   queueBuff, msg, chunk, nwrites, nrx, nenq, nerr, taken,
                   actedOn, outcome, taskCalled, script, entered>>

\* usart_async_enable and its check, then receive mode.
CliStartupEnable ==
    /\ supc = "enable"
    /\ status' = IF EnableFailed(outcome) THEN -3 ELSE status
    /\ uartMode' = IF EnableFailed(outcome) THEN uartMode ELSE UART_RX_MODE
    /\ supc' = IF EnableFailed(outcome) THEN "return" ELSE "task"
    /\ transport' = [transport EXCEPT !.enabled = outcome.enable]
    /\ UNCHANGED <<pc, authState, rxBuffer, rxIndex, rxChar, rxQueue,
                   txQueue, txBusy, halted, sw, returnStatus, queueBuff, msg,
                   chunk, nwrites, nrx, nenq, nerr, taken, actedOn, outcome,
                   taskCalled, script, entered>>

\* xTaskCreate(cliTask, ...) and its check: on pdPASS the task exists.
CliStartupTaskCreate ==
    /\ supc = "task"
    /\ taskCalled' = TRUE
    /\ status' = IF TaskFailed(outcome) THEN -4 ELSE status
    /\ pc' = IF TaskFailed(outcome) THEN pc ELSE "entry"
    /\ supc' = "return"
    /\ UNCHANGED <<authState, rxBuffer, rxIndex, rxChar, rxQueue, txQueue,
                   uartMode, txBusy, halted, sw, returnStatus, queueBuff,
                   msg, chunk, nwrites, nrx, nenq, nerr, taken, actedOn,
                   outcome, script, entered, transport>>

\* return status
CliStartupReturn ==
    /\ supc = "return"
    /\ supc' = "returned"
    /\ UNCHANGED <<pc, authState, rxBuffer, rxIndex, rxChar, rxQueue,
                   txQueue, uartMode, txBusy, halted, sw, returnStatus,
                   queueBuff, msg, chunk, nwrites, nrx, nenq, nerr, taken,
                   actedOn, status, outcome, taskCalled, script, entered,
                   transport>>

\* The first statements of cliTask, up to its loop.
cliTaskEntry ==
    /\ pc = "entry"
    /\ returnStatus' = pdFALSE
    /\ authState' = FSM_LOG_IN
    /\ pc' = "auth"
    /\ UNCHANGED <<rxBuffer, rxIndex, rxChar, rxQueue, txQueue, uartMode,
                   txBusy, halted, sw, queueBuff, msg, chunk, nwrites, nrx,
                   nenq, nerr, taken, actedOn, supc, status, outcome,
                   taskCalled, script, entered, transport>>

\* ---------------------------------------------------- interrupt handlers

PasswordLine == Append(PASSWORD, LF_CHAR)

\* xQueueSendFromISR on a queue of CLI_QUEUE_LENGTH items: the item is
\* appended unless the queue is full, and then the queue is left as it is.
QueueFull(q) == Len(q) >= CLI_QUEUE_LENGTH

xQueueSendOverwrite(q, item) ==
    IF QueueFull(q) THEN Append(Tail(q), item) ELSE Append(q, item)

xQueueSendFromISR(q, item) ==
    IF QueueFull(q) THEN q ELSE Append(q, item)

\* xQueueSendFromISR on a NULL handle is undefined behaviour: the call does
\* not return (configASSERT, a fault: TRUE), or it returns and the handler
\* goes on to its end or to its ASSERT(0).  No queue exists, so nothing is
\* queued.
SendOnNullHandle == BOOLEAN

cliRxReceivedCbStoresByte(c) ==
    /\ ~halted
    /\ transport.io
    /\ rxChar' = c
    /\ rxBuffer' = [rxBuffer EXCEPT ![rxIndex] = c]
    /\ nrx' = nrx + 1
    /\ IF transport.rxQueue
          THEN /\ rxQueue' = xQueueSendFromISR(rxQueue, c)
               /\ nenq' = IF QueueFull(rxQueue) THEN nenq ELSE nenq + 1
               /\ halted' = halted
          ELSE /\ rxQueue' = rxQueue
               /\ nenq' = nenq
               /\ halted' \in SendOnNullHandle
    /\ UNCHANGED <<pc, authState, rxIndex, txQueue, uartMode, txBusy, sw,
                   returnStatus, queueBuff, msg, chunk, nwrites, nerr, taken,
                   actedOn, supc, status, outcome, taskCalled, script,
                   entered, transport>>

\* The byte-received interrupt: nothing while cliInstance.io is NULL;
\* otherwise io_read stores the byte in cliInstance.rxChar, then the byte is
\* offered to the inbound queue.  The handle cliInstance.rxQueue is passed
\* on unchecked.
cliRxReceivedCb(c) ==
    /\ ~halted
    /\ transport.io
    /\ rxChar' = c
    /\ nrx' = nrx + 1
    /\ IF transport.rxQueue
          THEN /\ rxQueue' = xQueueSendFromISR(rxQueue, c)
               /\ nenq' = IF QueueFull(rxQueue) THEN nenq ELSE nenq + 1
               /\ halted' = halted
          ELSE /\ rxQueue' = rxQueue
               /\ nenq' = nenq
               /\ halted' \in SendOnNullHandle
    /\ UNCHANGED <<pc, authState, rxBuffer, rxIndex, txQueue, uartMode,
                   txBusy, sw, returnStatus, queueBuff, msg, chunk, nwrites,
                   nerr, taken, actedOn, supc, status, outcome, taskCalled,
                   script, entered, transport>>

\* The write-completed interrupt, which the driver calls when the write in
\* flight has been sent: nothing while cliInstance.io is NULL; otherwise
\* CLI_TX_COMPLETE is pushed to the status queue, and a failed push is
\* ASSERT(0).  The handle cliInstance.txQueue is passed on unchecked.
cliTxCompletedCb ==
    /\ ~halted
    /\ transport.io
    /\ txBusy
    /\ txBusy' = FALSE
    /\ IF transport.txQueue
          THEN /\ txQueue' = xQueueSendFromISR(txQueue, CLI_TX_COMPLETE)
               /\ halted' = QueueFull(txQueue)
          ELSE /\ txQueue' = txQueue
               /\ halted' \in SendOnNullHandle
    /\ UNCHANGED <<pc, authState, rxBuffer, rxIndex, rxChar, rxQueue,
                   uartMode, sw, returnStatus, queueBuff, msg, chunk,
                   nwrites, nrx, nenq, nerr, taken, actedOn, supc, status,
                   outcome, taskCalled, script, entered, transport>>

\* The error interrupt, which the driver calls on a transmission or
\* reception error, whether or not a write is in flight: nothing while
\* cliInstance.io is NULL; otherwise CLI_MSG_ERR is pushed to the status
\* queue, and a failed push is ASSERT(0).  The handle cliInstance.txQueue
\* is passed on unchecked.
cliRxTxErr ==
    /\ ~halted
    /\ transport.io
    /\ IF transport.txQueue
          THEN /\ txQueue' = xQueueSendFromISR(txQueue, CLI_MSG_ERR)
               /\ halted' = QueueFull(txQueue)
          ELSE /\ txQueue' = txQueue
               /\ halted' \in SendOnNullHandle
    /\ nerr' = nerr + 1
    /\ UNCHANGED <<pc, authState, rxBuffer, rxIndex, rxChar, rxQueue,
                   uartMode, txBusy, sw, returnStatus, queueBuff, msg, chunk,
                   nwrites, nrx, nenq, taken, actedOn, supc, status, outcome,
                   taskCalled, script, entered, transport>>

\* --------------------------------------------------------- cliAuthenticate

\* rxBuffer[strcspn(rxBuffer, "\r\n")] = 0
StripNewline(buf) ==
    [buf EXCEPT ![strcspn(buf, {CLI_END_CHAR, LF_CHAR})] = CLI_NULL_CHAR]

PasswordMatches(buf) == strcmpEq(StripNewline(buf), PASSWORD)

\* The message the case of state s sends with cliSendMessage, if any.
AuthMessage(s, buf) ==
    CASE s = FSM_LOG_IN -> "PROMPT_PASSWORD"
      [] s = FSM_PROCESS /\ PasswordMatches(buf) -> "AUTH_SUCCESS"
      [] s = FSM_ERR -> "AUTH_FAIL"
      [] OTHER -> "none"

AuthStateFailOpen(s, buf) ==
    CASE s = FSM_LOG_IN -> s
      [] s = FSM_INPUT -> IF strchr(buf, LF_CHAR) THEN FSM_PROCESS ELSE s
      [] s = FSM_PROCESS -> IF PasswordMatches(buf) THEN FSM_LOG_OUT ELSE FSM_ERR
      [] s = FSM_ERR -> s
      [] s = FSM_LOG_OUT -> FSM_ERR
      [] OTHER -> FSM_LOG_OUT

\* authState when the case of state s has run up to its cliSendMessage, or
\* to its end when it sends nothing.  A state with no case takes default.
AuthState(s, buf) ==
    CASE s = FSM_LOG_IN -> s
      [] s = FSM_INPUT -> IF strchr(buf, LF_CHAR) THEN FSM_PROCESS ELSE s
      [] s = FSM_PROCESS -> IF PasswordMatches(buf) THEN FSM_LOG_OUT ELSE FSM_ERR
      [] s = FSM_ERR -> s
      [] OTHER -> FSM_ERR

\* rxBuffer at the same point.
AuthBufferPromptKeeps(s, buf) ==
    CASE s = FSM_PROCESS -> IF PasswordMatches(buf) THEN ZeroBuf ELSE StripNewline(buf)
      [] OTHER -> buf

AuthBuffer(s, buf) ==
    CASE s = FSM_LOG_IN -> ZeroBuf
      [] s = FSM_PROCESS -> IF PasswordMatches(buf) THEN ZeroBuf ELSE StripNewline(buf)
      [] OTHER -> buf

\* One pass of the switch, up to the wait inside cliSendMessage when the
\* case sends a message: the direction is set to transmit and the message
\* is handed to the transport.
cliAuthenticateSwitch ==
    /\ pc = "auth"
    /\ ~halted
    /\ LET m == AuthMessage(authState, rxBuffer) IN
        /\ msg' = m
        /\ authState' = AuthState(authState, rxBuffer)
        /\ rxBuffer' = AuthBuffer(authState, rxBuffer)
        /\ uartMode' = IF m = "none" THEN uartMode ELSE UART_TX_MODE
        /\ txBusy' = IF m = "none" THEN txBusy ELSE TRUE
        /\ pc' = IF m = "none" THEN "auth_end" ELSE "send_wait"
    /\ entered' = {authState}
    /\ UNCHANGED <<rxIndex, rxChar, rxQueue, txQueue, halted, sw,
                   returnStatus, queueBuff, chunk, nwrites, nrx, nenq, nerr,
                   taken, actedOn, supc, status, outcome, taskCalled, script,
                   transport>>

cliSendMessageWaitReturnsAtOnce ==
    /\ pc = "send_wait"
    /\ ~halted
    /\ txQueue' = IF txQueue = <<>> THEN txQueue ELSE Tail(txQueue)
    /\ uartMode' = UART_RX_MODE
    /\ rxIndex' = IF msg = "AUTH_SUCCESS" THEN rxIndex ELSE 0
    /\ rxBuffer' = IF msg = "AUTH_FAIL" THEN ZeroBuf ELSE rxBuffer
    /\ authState' = CASE msg = "PROMPT_PASSWORD" -> FSM_INPUT
                      [] msg = "AUTH_FAIL" -> FSM_LOG_IN
                      [] OTHER -> authState
    /\ msg' = "none"
    /\ pc' = "auth_end"
    /\ UNCHANGED <<rxChar, rxQueue, txBusy, halted, sw, returnStatus,
                   queueBuff, chunk, nwrites, nrx, nenq, nerr, taken,
                   actedOn, supc, status, outcome, taskCalled, script,
                   entered, transport>>

cliSendMessageWaitKeepsTransmit ==
    /\ pc = "send_wait"
    /\ ~halted
    /\ txQueue # <<>>
    /\ txQueue' = Tail(txQueue)
    /\ rxIndex' = IF msg = "AUTH_SUCCESS" THEN rxIndex ELSE 0
    /\ rxBuffer' = IF msg = "AUTH_FAIL" THEN ZeroBuf ELSE rxBuffer
    /\ authState' = CASE msg = "PROMPT_PASSWORD" -> FSM_INPUT
                      [] msg = "AUTH_FAIL" -> FSM_LOG_IN
                      [] OTHER -> authState
    /\ msg' = "none"
    /\ pc' = "auth_end"
    /\ UNCHANGED <<rxChar, rxQueue, uartMode, txBusy, halted, sw,
                   returnStatus, queueBuff, chunk, nwrites, nrx, nenq, nerr,
                   taken, actedOn, supc, status, outcome, taskCalled, script,
                   entered, transport>>

\* The rest of cliSendMessage, the wait with portMAX_DELAY for a status tag
\* and the return to receive mode, then the rest of the case that sent.
cliSendMessageWait ==
    /\ pc = "send_wait"
    /\ ~halted
    /\ txQueue # <<>>
    /\ txQueue' = Tail(txQueue)
    /\ uartMode' = UART_RX_MODE
    /\ rxIndex' = IF msg = "AUTH_SUCCESS" THEN rxIndex ELSE 0
    /\ rxBuffer' = IF msg = "AUTH_FAIL" THEN ZeroBuf ELSE rxBuffer
    /\ authState' = CASE msg = "PROMPT_PASSWORD" -> FSM_INPUT
                      [] msg = "AUTH_FAIL" -> FSM_LOG_IN
                      [] OTHER -> authState
    /\ msg' = "none"
    /\ pc' = "auth_end"
    /\ UNCHANGED <<rxChar, rxQueue, txBusy, halted, sw, returnStatus,
                   queueBuff, chunk, nwrites, nrx, nenq, nerr, taken,
                   actedOn, supc, status, outcome, taskCalled, script,
                   entered, transport>>

\* while (1) of cliAuthenticate: a break leaves the switch, not the loop.
cliAuthenticateLoop ==
    /\ pc = "auth_end"
    /\ ~halted
    /\ pc' = "auth"
    /\ entered' = {}
    /\ UNCHANGED <<authState, rxBuffer, rxIndex, rxChar, rxQueue, txQueue,
                   uartMode, txBusy, halted, sw, returnStatus, queueBuff,
                   msg, chunk, nwrites, nrx, nenq, nerr, taken, actedOn,
                   supc, status, outcome, taskCalled, script, transport>>

\* ------------------------------------------------ cliTask: line assembler

\* The statements of cliTask's loop after the call of cliAuthenticate
\* (cli.c:223-277).  cliAuthenticate does not return, so the task is at none
\* of the positions "recv", "switch", "store", "interp", "disp_write",
\* "disp_wait" and "disp_end" in any run; the actions say what the task
\* would do there.


\* case CLI_END_CHAR: rxBuffer[rxIndex] = CLI_NULL_CHAR
NulTerminate(buf, idx) == [buf EXCEPT ![idx] = CLI_NULL_CHAR]

\* case CLI_BS_CHAR
BackspaceIndex(idx) == IF idx > 0 THEN idx - 1 ELSE idx

BackspaceBuffer(buf, idx) ==
    IF idx > 0 THEN [buf EXCEPT ![idx - 1] = CLI_NULL_CHAR] ELSE buf

\* default: the byte is stored while rxIndex < CLI_RX_BUFFER_SIZE - 1
HasRoom(idx) == idx < CLI_RX_BUFFER_SIZE - 1

StoreIndex(idx) == IF HasRoom(idx) THEN idx + 1 ELSE idx

StoreBuffer(buf, idx, c) == IF HasRoom(idx) THEN [buf EXCEPT ![idx] = c] ELSE buf

\* xQueueReceive(rxQueue, &rxChar, portMAX_DELAY): blocks while the queue is
\* empty, then copies the oldest byte into cliInstance.rxChar.
cliTaskReceive ==
    /\ pc = "recv"
    /\ ~halted
    /\ rxQueue # <<>>
    /\ rxChar' = Head(rxQueue)
    /\ taken' = Head(rxQueue)
    /\ rxQueue' = Tail(rxQueue)
    /\ pc' = "switch"
    /\ UNCHANGED <<authState, rxBuffer, rxIndex, txQueue, uartMode, txBusy,
                   halted, sw, returnStatus, queueBuff, msg, chunk, nwrites,
                   nrx, nenq, nerr, actedOn, supc, status, outcome,
                   taskCalled, script, entered, transport>>

\* switch (cliInstance.rxChar): the field is read after xQueueReceive has
\* returned.  The terminator and backspace cases run here; the default case
\* goes on to the store, which names the field a second time.
cliTaskSwitch ==
    /\ pc = "switch"
    /\ ~halted
    /\ sw' = rxChar
    /\ rxBuffer' = CASE rxChar = CLI_END_CHAR -> NulTerminate(rxBuffer, rxIndex)
                     [] rxChar = CLI_BS_CHAR -> BackspaceBuffer(rxBuffer, rxIndex)
                     [] OTHER -> rxBuffer
    /\ rxIndex' = IF rxChar = CLI_BS_CHAR THEN BackspaceIndex(rxIndex) ELSE rxIndex
    /\ pc' = CASE rxChar = CLI_END_CHAR -> "interp"
               [] rxChar = CLI_BS_CHAR -> "auth"
               [] OTHER -> "store"
    /\ chunk' = IF rxChar = CLI_END_CHAR THEN 0 ELSE chunk
    /\ nwrites' = IF rxChar = CLI_END_CHAR THEN 0 ELSE nwrites
    /\ actedOn' = IF rxChar \in {CLI_END_CHAR, CLI_BS_CHAR} THEN rxChar ELSE actedOn
    /\ UNCHANGED <<authState, rxChar, rxQueue, txQueue, uartMode, txBusy,
                   halted, returnStatus, queueBuff, msg, nrx, nenq, nerr,
                   taken, supc, status, outcome, taskCalled, script, entered,
                   transport>>

\* rxBuffer[rxIndex++] = cliInstance.rxChar: rxChar is not volatile, so the
\* build may store the value the switch read or read the field again.
cliTaskStore ==
    /\ pc = "store"
    /\ ~halted
    /\ \E c \in {sw, rxChar} :
        /\ rxBuffer' = StoreBuffer(rxBuffer, rxIndex, c)
        /\ actedOn' = c
    /\ rxIndex' = StoreIndex(rxIndex)
    /\ pc' = "auth"
    /\ UNCHANGED <<authState, rxChar, rxQueue, txQueue, uartMode, txBusy,
                   halted, sw, returnStatus, queueBuff, msg, chunk, nwrites,
                   nrx, nenq, nerr, taken, supc, status, outcome, taskCalled,
                   script, entered, transport>>

\* ---------------------------------------------- cliTask: dispatch loop

\* FreeRTOS_CLIProcessCommand(rxBuffer, txBuffer, CLI_TX_BUFFER_SIZE): fills
\* the response buffer and reports whether more output is pending.
cliTaskProcessCommand ==
    /\ pc = "interp"
    /\ ~halted
    /\ \E more \in {pdFALSE, pdTRUE} :
        /\ (more = pdTRUE) => chunk + 1 < MaxChunks
        /\ returnStatus' = more
    /\ chunk' = chunk + 1
    /\ pc' = "disp_write"
    /\ UNCHANGED <<authState, rxBuffer, rxIndex, rxChar, rxQueue, txQueue,
                   uartMode, txBusy, halted, sw, queueBuff, msg, nwrites,
                   nrx, nenq, nerr, taken, actedOn, supc, status, outcome,
                   taskCalled, script, entered, transport>>

\* cliSetUartDirectionMode(UART_TX_MODE); io_write(txBuffer); queueBuff = 0
cliTaskWrite ==
    /\ pc = "disp_write"
    /\ ~halted
    /\ uartMode' = UART_TX_MODE
    /\ txBusy' = TRUE
    /\ nwrites' = nwrites + 1
    /\ queueBuff' = 0
    /\ pc' = "disp_wait"
    /\ UNCHANGED <<authState, rxBuffer, rxIndex, rxChar, rxQueue, txQueue,
                   halted, sw, returnStatus, msg, chunk, nrx, nenq, nerr,
                   taken, actedOn, supc, status, outcome, taskCalled, script,
                   entered, transport>>

\* if ((returnStatus == pdFALSE) || (queueBuff == 2)) break;
DispatchLoopExit(rs, qb) == (rs = pdFALSE) \/ (qb = CLI_MSG_ERR)

\* xQueueReceive(txQueue, &queueBuff, 1000) returning a status tag.
cliTaskStatus ==
    /\ pc = "disp_wait"
    /\ ~halted
    /\ txQueue # <<>>
    /\ queueBuff' = Head(txQueue)
    /\ txQueue' = Tail(txQueue)
    /\ pc' = IF DispatchLoopExit(returnStatus, Head(txQueue))
             THEN "disp_end" ELSE "interp"
    /\ UNCHANGED <<authState, rxBuffer, rxIndex, rxChar, rxQueue, uartMode,
                   txBusy, halted, sw, returnStatus, msg, chunk, nwrites,
                   nrx, nenq, nerr, taken, actedOn, supc, status, outcome,
                   taskCalled, script, entered, transport>>

\* xQueueReceive(txQueue, &queueBuff, 1000) timing out: queueBuff keeps 0.
cliTaskStatusTimeout ==
    /\ pc = "disp_wait"
    /\ ~halted
    /\ txQueue = <<>>
    /\ pc' = IF DispatchLoopExit(returnStatus, queueBuff)
             THEN "disp_end" ELSE "interp"
    /\ UNCHANGED <<authState, rxBuffer, rxIndex, rxChar, rxQueue, txQueue,
                   uartMode, txBusy, halted, sw, returnStatus, queueBuff,
                   msg, chunk, nwrites, nrx, nenq, nerr, taken, actedOn,
                   supc, status, outcome, taskCalled, script, entered,
                   transport>>

\* After the loop: cliSetUartDirectionMode(UART_RX_MODE); rxIndex = 0
cliTaskDispatchEnd ==
    /\ pc = "disp_end"
    /\ ~halted
    /\ uartMode' = UART_RX_MODE
    /\ rxIndex' = 0
    /\ pc' = "auth"
    /\ UNCHANGED <<authState, rxBuffer, rxChar, rxQueue, txQueue, txBusy,
                   halted, sw, returnStatus, queueBuff, msg, chunk, nwrites,
                   nrx, nenq, nerr, taken, actedOn, supc, status, outcome,
                   taskCalled, script, entered, transport>>

\* ----------------------------------------------------------- environment

\* At most MaxErr error interrupts.
ErrInterrupt == nerr < MaxErr /\ cliRxTxErr

RxInterruptFlood ==
    \E c \in FloodBytes : nrx < MaxFlood /\ cliRxReceivedCb(c)

\* The lines typed in ScriptSpec: the password ended by a carriage return,
\* a wrong password ended by a carriage return, the password ended by
\* a line feed and a carriage return followed by the command hello, the
\* password and a wrong password each ended by a line feed, and a line
\* corrected with a backspace.
PasswordCR == Append(PASSWORD, CLI_END_CHAR)

WrongCR == <<57, 57, 57, 57, CLI_END_CHAR>>

HelloCR == <<104, 101, 108, 108, 111, CLI_END_CHAR>>

ScriptLogin == PasswordCR

ScriptReject == WrongCR

ScriptHello == PasswordLine \o <<CLI_END_CHAR>> \o HelloCR

ScriptPasswordLF == PasswordLine

ScriptWrongLF == <<57, 57, 57, 57, LF_CHAR>>

ScriptEdited == <<49, CLI_BS_CHAR, 50, CLI_END_CHAR>>

Scripts ==
    {ScriptLogin, ScriptReject, ScriptHello, ScriptPasswordLF, ScriptWrongLF,
     ScriptEdited}

\* The sender of ScriptSpec types the next byte of the script.
RxInterruptScript ==
    /\ nrx < Len(script)
    /\ cliRxReceivedCb(script[nrx + 1])

\* -------------------------------------------------------- specifications

\* The program as written.
Next ==
    \/ RxInterruptFlood
    \/ cliTxCompletedCb
    \/ ErrInterrupt
    \/ cliAuthenticateSwitch
    \/ cliSendMessageWait
    \/ cliAuthenticateLoop

Spec == Init /\ [][Next]_vars

TaskNext == cliAuthenticateSwitch \/ cliSendMessageWait \/ cliAuthenticateLoop

\* The task is scheduled whenever it can run, and the transport settles
\* every write.
FairSpec == Spec /\ WF_vars(TaskNext) /\ WF_vars(cliTxCompletedCb)

\* The task is scheduled whenever it can run; the transport may never
\* settle a write.
TaskFairSpec == Spec /\ WF_vars(TaskNext)

\* CliStartup from its entry to its return, and the start of the task it
\* creates.
\* The driver calls a callback once it is registered and the USART is
\* enabled.  During and after CliStartup bytes may arrive at any moment;
\* the created task runs its first pass of cliAuthenticate, whose write the
\* transport settles.
Delivered(cb) == transport.enabled /\ cb \in transport.callbacks

StartupRxInterrupt ==
    \E c \in FloodBytes :
        /\ Delivered("USART_ASYNC_RXC_CB")
        /\ nrx < MaxInput
        /\ cliRxReceivedCb(c)

StartupTxInterrupt == Delivered("USART_ASYNC_TXC_CB") /\ cliTxCompletedCb

StartupErrInterrupt == Delivered("USART_ASYNC_ERROR_CB") /\ ErrInterrupt

StartupNext ==
    \/ CliStartupDescriptor
    \/ CliStartupQueues
    \/ CliStartupCallbacks
    \/ CliStartupEnable
    \/ CliStartupTaskCreate
    \/ CliStartupReturn
    \/ cliTaskEntry
    \/ cliAuthenticateSwitch
    \/ cliSendMessageWait
    \/ StartupRxInterrupt
    \/ StartupTxInterrupt
    \/ StartupErrInterrupt

StartupSpec == InitStartup /\ [][StartupNext]_vars

\* The loop of cliAuthenticate entered with any auth state, line buffer and
\* cursor: the values of FSMAuthState_e and one value that is
\* none of them; the buffers over BufferBytes (a byte of each class that
\* strchr, strcspn and strcmp tell apart) that end in NUL, as every buffer
\* the program fills does, and the password followed by up to two of these
\* bytes.
AuthValues == FSM_LOG_IN .. (FSM_ERR + 1)

BufferBytes == {CLI_NULL_CHAR, 49, LF_CHAR, CLI_END_CHAR}

PasswordTails ==
    {<<>>} \cup {<<a>> : a \in BufferBytes}
           \cup {<<a, b>> : a \in BufferBytes, b \in BufferBytes}

LineBuffers ==
    {b \in [BufIndex -> BufferBytes] : b[CLI_RX_BUFFER_SIZE - 1] = CLI_NULL_CHAR}
        \cup {BufferOf(PASSWORD \o t) : t \in PasswordTails}

AuthStepInit ==
    /\ pc = "auth"
    /\ authState \in AuthValues
    /\ rxBuffer \in LineBuffers
    /\ rxIndex \in BufIndex
    /\ rxChar = CLI_NULL_CHAR
    /\ rxQueue = <<>>
    /\ txQueue = <<>>
    /\ uartMode = UART_RX_MODE
    /\ txBusy = FALSE
    /\ halted = FALSE
    /\ sw = CLI_NULL_CHAR
    /\ returnStatus = pdFALSE
    /\ queueBuff = 0
    /\ msg = "none"
    /\ chunk = 0
    /\ nwrites = 0
    /\ nrx = 0
    /\ nenq = 0
    /\ nerr = 0
    /\ taken = CLI_NULL_CHAR
    /\ actedOn = CLI_NULL_CHAR
    /\ supc = "returned"
    /\ status = 0
    /\ outcome = AllSucceed
    /\ taskCalled = TRUE
    /\ script = <<>>
    /\ entered = {}
    /\ transport = TransportUp

AuthStepNext ==
    \/ cliAuthenticateSwitch
    \/ cliTxCompletedCb
    \/ ErrInterrupt
    \/ cliSendMessageWait
    \/ cliAuthenticateLoop

AuthStepSpec == AuthStepInit /\ [][AuthStepNext]_vars

\* The program as written with the input of a script.
ScriptInit == \E s \in Scripts : InitScript(s)

ScriptNext ==
    \/ RxInterruptScript
    \/ cliTxCompletedCb
    \/ ErrInterrupt
    \/ cliAuthenticateSwitch
    \/ cliSendMessageWait
    \/ cliAuthenticateLoop

\* The task is scheduled whenever it can run, the transport settles every
\* write and the sender types the whole script.
ScriptSpec ==
    /\ ScriptInit
    /\ [][ScriptNext]_vars
    /\ WF_vars(TaskNext)
    /\ WF_vars(cliTxCompletedCb)
    /\ WF_vars(RxInterruptScript)

\* ------------------------------------------------------------ sequences

MinNat(a, b) == IF a <= b THEN a ELSE b

Front(s) == SubSeq(s, 1, Len(s) - 1)

Truncate(s, n) == SubSeq(s, 1, MinNat(Len(s), n))

\* s without its trailing CR and LF bytes.
RECURSIVE StripTrailing(_)
StripTrailing(s) ==
    IF s # <<>> /\ s[Len(s)] \in {CLI_END_CHAR, LF_CHAR}
    THEN StripTrailing(Front(s))
    ELSE s

C4_EveryByteIsDequeued == (rxQueue # <<>>) ~> (pc = "switch")

\* ------------------------------------------------------------------ C5
\* The reference of C5: backspaces applied left to right to the bytes of s
\* before its first carriage return, the result truncated to capacity-1.
RECURSIVE ApplyBackspaces(_)
ApplyBackspaces(s) ==
    IF s = <<>> THEN <<>>
    ELSE LET r == ApplyBackspaces(Front(s)) IN
         IF s[Len(s)] = CLI_BS_CHAR
         THEN (IF r = <<>> THEN r ELSE Front(r))
         ELSE Append(r, s[Len(s)])

BeforeFirstCR(s) ==
    SubSeq(s, 1, MinOf({i \in 1 .. Len(s) : s[i] = CLI_END_CHAR}) - 1)

LineReference(s) ==
    Truncate(ApplyBackspaces(BeforeFirstCR(s)), CLI_RX_BUFFER_SIZE - 1)

\* C5: when a sequence of bytes is received from an empty line, the line
\* assembler comes to its first carriage return, and the line buffer then
\* holds, as a C string, the bytes before that carriage return with
\* backspaces applied left to right and truncated to capacity-1.  Stated for
\* the typed lines that hold no line feed.
C5_BackspacesThenTruncate ==
    (script \in {ScriptLogin, ScriptReject, ScriptEdited})
        => <>(/\ taken = CLI_END_CHAR
              /\ actedOn = CLI_END_CHAR
              /\ CString(rxBuffer) = LineReference(script))

\* ------------------------------------------------------------------ C6
\* C6: the bytes the line assembler acts on are the bytes enqueued, in the
\* order received: the byte it has acted on last is the byte xQueueReceive
\* handed over last, whatever the interrupt received in between, and once
\* the bytes of a typed line are all in the inbound queue the task takes
\* them out and acts on each, the last of them last.
C6_ActedByteIsDequeuedByte ==
    /\ []((pc \notin {"switch", "store"}) => (actedOn = taken))
    /\ (script # <<>> /\ nenq = Len(script))
            ~> (rxQueue = <<>> /\ actedOn = script[Len(script)])

\* ------------------------------------------------------------------ C7
\* C7: the inbound queue never holds more than CLI_QUEUE_LENGTH bytes; when
\* it is full the byte-received interrupt can still run (it does not
\* block), and running it drops the byte: the queue and the task's position
\* are unchanged.
C7_FullQueueDropsByte ==
    /\ [](Len(rxQueue) <= CLI_QUEUE_LENGTH)
    /\ []((Len(rxQueue) = CLI_QUEUE_LENGTH /\ nrx < MaxFlood)
            => ENABLED RxInterruptFlood)
    /\ [][(nrx' = nrx + 1 /\ Len(rxQueue) = CLI_QUEUE_LENGTH)
            => (rxQueue' = rxQueue /\ nenq' = nenq /\ pc' = pc)]_vars

\* The queue is full and a byte has been dropped.
C7_Witness ==
    Len(rxQueue) = CLI_QUEUE_LENGTH /\ nrx > nenq

\* ------------------------------------------------------------------ C8
\* C8: the direction is Transmit from a write until the status event of
\* that write has been consumed; it is never Receive while a transmission
\* is in flight.
C8_TransmitUntilStatusConsumed ==
    txBusy => (uartMode = UART_TX_MODE)

\* ----------------------------------------------------------------- C11
\* C11: CliStartup returns 0 only when every step succeeded, and a negative
\* status when a step failed.
C11_ZeroOnlyOnSuccess ==
    (supc = "returned") =>
        /\ (status = 0) => (\A f \in DOMAIN outcome : outcome[f])
        /\ (\E f \in {"ioResult", "io", "rxQueue", "txQueue", "rxCb", "txCb",
                       "errCb", "enable"} : ~outcome[f]) => (status < 0)

\* ----------------------------------------------------------------- C12
\* C12: when the descriptor lookup, a queue allocation, a callback
\* registration or the transport enable fails, xTaskCreate is never called
\* and cliTask never runs.
C12_NoTaskAfterFailedStep ==
    (\E f \in {"ioResult", "io", "rxQueue", "txQueue", "rxCb", "txCb",
                "errCb", "enable"} : ~outcome[f])
        => (~taskCalled /\ pc = "none")

\* CliStartup has returned after the registration of the transmit callback
\* alone failed, with no task.
C12_Witness ==
    /\ supc = "returned"
    /\ outcome.ioResult /\ outcome.io /\ outcome.rxQueue /\ outcome.txQueue
    /\ outcome.rxCb /\ ~outcome.txCb /\ outcome.errCb
    /\ status = -2
    /\ ~taskCalled
    /\ pc = "none"

\* ----------------------------------------------------------------- C13
\* C13: when '1','2','3','4',CR are received in Collecting, the Auth FSM
\* moves to Verifying and then to Authenticated, and the line is not handed
\* to the command interpreter.
C13_CarriageReturnCompletesPassword ==
    (script = ScriptLogin) =>
        /\ <>(authState = FSM_PROCESS /\ <>(authState = FSM_LOG_OUT))
        /\ [](pc # "interp")

\* ----------------------------------------------------------------- C14
\* C14: when the non-matching line '9','9','9','9',CR is received, the Auth
\* FSM moves to Rejected, the failure message is sent, the buffer is
\* cleared and the cursor reset with the FSM back in AwaitingPrompt, and the
\* prompt is sent again, in that order; Authenticated is never reached.
C14_RejectionSequence ==
    (script = ScriptReject) =>
        /\ <>(/\ authState = FSM_ERR
              /\ <>(/\ msg = "AUTH_FAIL"
                    /\ <>(/\ authState = FSM_LOG_IN
                          /\ rxIndex = 0
                          /\ rxBuffer = ZeroBuf
                          /\ nrx >= Len(WrongCR)
                          /\ <>(msg = "PROMPT_PASSWORD"))))
        /\ [](authState # FSM_LOG_OUT)

\* ----------------------------------------------------------------- C15
\* C15: in a session that is authenticated when 'h','e','l','l','o',CR are
\* typed, the interpreter is called with exactly that line; when its first
\* call reports no more output there is one call and one write, made in
\* Transmit mode; and the task goes back to waiting for input with the
\* cursor at 0 and the direction Receive.
C15_HelloIsDispatchedOnce ==
    /\ []((script = ScriptHello /\ nrx = Len(script) /\ pc = "disp_write")
            => CString(rxBuffer) = SubSeq(HelloCR, 1, Len(HelloCR) - 1))
    /\ []((script = ScriptHello /\ nrx = Len(script) /\ pc = "disp_wait")
            => uartMode = UART_TX_MODE)
    /\ [][(script = ScriptHello /\ nrx = Len(script) /\ pc = "disp_wait"
              /\ chunk = 1 /\ returnStatus = pdFALSE /\ pc' # pc)
            => (pc' = "disp_end" /\ nwrites' = 1 /\ chunk' = 1)]_vars
    /\ (script = ScriptHello)
            => <>[](nrx = Len(script) /\ pc = "recv" /\ rxIndex = 0
                      /\ uartMode = UART_RX_MODE)

\* ----------------------------------------------------------------- C19
\* C19: with a transport that produces one status event per write (no
\* error interrupt has pushed one besides), the task issues a write only
\* when the previous write has settled and its status event has been
\* consumed; the status queue never holds more than one event and the
\* ASSERT on a failed status push is never hit.
C19_SingleOutstandingTransmission ==
    /\ []((nerr = 0) => (Len(txQueue) <= 1 /\ ~halted))
    /\ [][(/\ nerr = 0
           /\ \/ (pc = "disp_write" /\ pc' = "disp_wait")
              \/ (pc = "auth" /\ pc' = "send_wait"))
            => (~txBusy /\ txQueue = <<>>)]_vars

\* The prompt has been written, the transport has settled the write, and
\* the task has consumed its status event; no error interrupt has run.
C19_Witness ==
    /\ pc = "auth_end"
    /\ entered = {FSM_LOG_IN}
    /\ authState = FSM_INPUT
    /\ nerr = 0
    /\ ~txBusy
    /\ txQueue = <<>>

\* ----------------------------------------------------------------- C20
\* C20: the task leaves every wait for a status event, the wait inside
\* cliSendMessage included, even when the transport never delivers one.
C20_StatusWaitIsBounded == (pc = "send_wait") ~> (pc # "send_wait")

\* ----------------------------------------------------------------- C21
\* C21: a pass of the switch in AwaitingPrompt (FSM_LOG_IN), from any line
\* buffer and cursor, sends the password prompt, and when the pass ends the
\* whole buffer is zero, the cursor is 0 and the auth state is Collecting
\* (FSM_INPUT); the result does not depend on the buffer and the cursor it
\* started from.
C21_PromptStepClears ==
    /\ [][(pc = "auth" /\ authState = FSM_LOG_IN /\ pc' # pc)
            => (pc' = "send_wait" /\ msg' = "PROMPT_PASSWORD"
                  /\ txBusy' /\ uartMode' = UART_TX_MODE)]_vars
    /\ []((pc = "auth_end" /\ entered = {FSM_LOG_IN})
            => (rxBuffer = ZeroBuf /\ rxIndex = 0 /\ authState = FSM_INPUT
                  /\ msg = "none"))

\* The prompt has been handed to the transport in a pass that began with the
\* cursor above 0; the cursor is reset after the wait.
C21_Witness ==
    /\ pc = "send_wait"
    /\ entered = {FSM_LOG_IN}
    /\ msg = "PROMPT_PASSWORD"
    /\ rxIndex > 0

\* ----------------------------------------------------------------- C22
\* C22: when authState holds a value that is none of the states of
\* FSMAuthState_e, the next pass of the switch sets it to Rejected (FSM_ERR),
\* never to Authenticated (FSM_LOG_OUT); the pass sends nothing, touches
\* neither the line buffer nor the cursor and runs no command.
C22_UndefinedStateFailsClosed ==
    [][(pc = "auth" /\ authState \notin FSM_LOG_IN .. FSM_ERR /\ pc' # pc)
         => /\ authState' = FSM_ERR
            /\ pc' = "auth_end"
            /\ msg' = "none"
            /\ UNCHANGED <<rxBuffer, rxIndex, uartMode, txBusy, txQueue,
                           chunk, nwrites>>]_vars

\* A pass that began with a value outside the enumeration has ended.
C22_Witness ==
    /\ pc = "auth_end"
    /\ entered # {}
    /\ entered \cap (FSM_LOG_IN .. FSM_ERR) = {}
    /\ authState = FSM_ERR

\* ----------------------------------------------------------------- C23
\* C23: a step that leaves cliTask where it is, which every run of
\* cliRxReceivedCb, cliTxCompletedCb and cliRxTxErr is, changes neither the
\* line buffer, nor the cursor, nor the auth state, nor the UART direction:
\* these four fields change only in steps of the task.
C23_HandlersLeaveTaskFields ==
    [][(pc' = pc) => UNCHANGED <<rxBuffer, rxIndex, authState, uartMode>>]_vars

\* The three handlers have run while the task waits in cliSendMessage for
\* the status of the prompt: a byte is in the inbound queue, a completion
\* tag and an error tag are in the status queue, and the line buffer, the
\* cursor, the auth state and the direction are as the task left them.
C23_Witness ==
    /\ pc = "send_wait"
    /\ msg = "PROMPT_PASSWORD"
    /\ rxQueue # <<>>
    /\ txQueue = <<CLI_TX_COMPLETE, CLI_MSG_ERR>>
    /\ rxBuffer = ZeroBuf
    /\ rxIndex = 0
    /\ authState = FSM_LOG_IN
    /\ uartMode = UART_TX_MODE

\* ----------------------------------------------------------------- C24
\* C24: when a pass of the switch has taken the auth state from Verifying
\* (FSM_PROCESS) to Authenticated (FSM_LOG_OUT), the whole line buffer is
\* zero and the cursor is 0; and when the password line and then
\* 'h','e','l','l','o',CR are typed, the auth state gets to Authenticated
\* that way and the interpreter is then called with the line hello, exactly
\* as typed.
C24_AuthenticatedStartsAtZero ==
    /\ []((entered = {FSM_PROCESS} /\ authState = FSM_LOG_OUT
              /\ pc = "auth_end")
            => (rxBuffer = ZeroBuf /\ rxIndex = 0))
    /\ (script = ScriptHello)
            => <>(/\ entered = {FSM_PROCESS}
                  /\ authState = FSM_LOG_OUT
                  /\ rxBuffer = ZeroBuf
                  /\ rxIndex = 0
                  /\ <>(/\ pc = "disp_write"
                        /\ CString(rxBuffer) = Front(HelloCR)))

C26_StartupOrdering ==
    /\ []((transport.callbacks # {})
            => (transport.rxQueue /\ transport.txQueue))
    /\ [](transport.enabled => (transport.callbacks = Callbacks))
    /\ [][(nrx' # nrx) => transport.rxQueue]_vars
    /\ [][(Len(txQueue') > Len(txQueue)) => transport.txQueue]_vars
    /\ [][((txBusy /\ ~txBusy') \/ nerr' # nerr) => transport.txQueue]_vars
    /\ [][(~transport.io)
            => UNCHANGED <<rxChar, rxQueue, txQueue, nrx, txBusy>>]_vars

\* CliStartup has returned -4: no task was created, but the USART is
\* enabled with its callbacks registered, and bytes that arrived since are
\* in the inbound queue.
C26_Witness ==
    /\ supc = "returned"
    /\ status = -4
    /\ transport.enabled
    /\ Len(rxQueue) = MaxInput

====
